---------------------------- MODULE Spec2Model ----------------------------
(***************************************************************************)
(* Model of the fluent-bit logs collector of the Kubernetes backend:       *)
(*   fluentbitLogsCollector.CreateAndStart  (provisioning with deferred    *)
(*       compensating deletes and a readiness gate),                       *)
(*   the removeLogsCollectorFunc it returns (teardown),                    *)
(*   waitForAtLeastOneActivePodManagedByDaemonSet (bounded polling), and   *)
(*   fluentbitLogsCollector.Clean           (evict, wipe, restore).        *)
(*                                                                         *)
(* The Kubernetes manager, the uuid generator and the port-spec helpers    *)
(* are external collaborators: every call to one of them is a step whose   *)
(* outcome (success or error, the pods listed, the time it took) is chosen *)
(* by the environment.  Time is counted in units of retryInterval.         *)
(***************************************************************************)
EXTENDS Integers, Sequences, FiniteSets, TLC

\* ------------------------------------------------------------------ bounds
\* the most pods one listing of the daemon set's pods returns
MaxPods == 2
\* the most container statuses one listed pod carries
MaxContainerStatuses == 2
\* the longest one pod listing takes, in units of retryInterval
MaxQueryLatency == 2
\* how many times the caller invokes the returned teardown capability
MaxTeardownCalls == 2
\* the port numbers a caller passes are drawn from 1..MaxPortNumber
MaxPortNumber == 4

\* -------------------------------------------------------- program constants
retryInterval == 1
maxRetries == 30

\* the nodes of the cluster
Nodes == {"node-a", "node-b"}

\* the six resources, in the order CreateAndStart creates them
CreationOrder ==
    << "Namespace", "ServiceAccount", "ClusterRole",
       "ClusterRoleBinding", "ConfigMap", "DaemonSet" >>

Kinds == { CreationOrder[i] : i \in 1..Len(CreationOrder) }

\* the node selector Clean patches the daemon set with to evict every pod
evictNodeSelectors == "non-existent-label=true"
\* map[string]string{}: no node selector, pods are scheduled on every node
emptyNodeSelectors == "{}"

\* ------------------------------------------------------------------ errors
\* An error is the chain of its messages, outermost first; nil is the empty
\* chain.
NoErr == << >>

\* stacktrace.NewError(msg)
NewError(msg) == << msg >>

\* stacktrace.Propagate(cause, msg): wraps cause; a nil cause gives nil
\* ("If cause is nil, Propagate returns nil").
Propagate(cause, msg) == IF cause = NoErr THEN NoErr ELSE << msg >> \o cause

\* the error a failed call of an external collaborator returns
BackendErr == << "backend error" >>

TimeoutMsg == "Timeout waiting for a pod managed by logs collector daemon set to come online"
ExceededMsg == "Exceeded max retries waiting for a pod managed by daemon set to come online"
GetPodsMsg == "An error occurred getting pods managed by logs collector daemon set"
WaitMsg == "An error occurred waiting for at least one active pod managed by logs collector daemon set"

\* the message CreateAndStart wraps the failure of creating kind k with
CreateMsg(k) == "An error occurred creating " \o k \o " for logs collector"

VARIABLES
    pc,             \* the statement the single control path is at
    call,           \* the operation in progress or last returned
    ctxCancelled,   \* the caller's ctx of the call in progress is cancelled
    cluster,        \* the kinds of this deployment that exist in the cluster
    ops,            \* the backend operations issued by the current call
    shouldRemove,   \* shouldRemoveLogsCollector<Kind> flags
    deferStack,     \* the deferred functions registered, last first
    retErr,         \* the error the last call returned
    retHandles,     \* the kinds whose handle CreateAndStart returned non-nil
    retTeardown,    \* CreateAndStart returned removeLogsCollectorFunc
    teardownCalls,  \* invocations of removeLogsCollectorFunc so far
    tdQueue,        \* removals the running removeLogsCollectorFunc has left
    attempt,        \* waiter: the loop counter
    elapsed,        \* waiter: time since the waiter was called
    tickBuffered,   \* waiter: ticker.C holds an undelivered tick
    waitState,      \* waiter: "idle", "running" or "returned"
    waitErr,        \* waiter: the error it returned, then its caller's err
    sawReady,       \* waiter: a listing of this wait had a ready container status
    pods,           \* Clean: the node of each pod listed at Discover
    nodeNames,      \* Clean: nodeNames
    terminated,     \* Clean: how many pods WaitForPodTermination saw terminated
    nodeIdx,        \* Clean: how many nodes of nodeNames were wiped
    nodeSelector,   \* the daemon set's node selector in the cluster
    cleanCalled,    \* Clean has been called
    clusterAtCall,  \* the cluster as the current call found it
    logged,         \* the kinds the current call logged "ACTION REQUIRED" for
    calls,          \* two concurrent CreateAndStart calls: the frame of each
    sharedCluster,  \* two concurrent calls: the resource names in the cluster
    portArgs,       \* the port numbers and port ids CreateAndStart was given
    daemonSet       \* the container of the DaemonSet handed to the backend

vars ==
    << pc, call, ctxCancelled, cluster, ops, shouldRemove, deferStack,
       retErr, retHandles, retTeardown, teardownCalls, tdQueue,
       attempt, elapsed, tickBuffered, waitState, waitErr, sawReady,
       pods, nodeNames, terminated, nodeIdx, nodeSelector, cleanCalled,
       clusterAtCall, logged, calls, sharedCluster, portArgs, daemonSet >>

provisionVars ==
    << shouldRemove, deferStack, retHandles, retTeardown >>
teardownVars == << teardownCalls, tdQueue >>
waitVars ==
    << attempt, elapsed, tickBuffered, waitState, waitErr, sawReady >>
cleanVars == << pods, nodeNames, terminated, nodeIdx, cleanCalled >>
waitLocals == << attempt, elapsed, tickBuffered, waitState, sawReady >>
twoCallVars == << calls, sharedCluster >>
portVars == << portArgs, daemonSet >>

\* one backend operation, as issued: its name, its target, its outcome
Op(name, arg, ok) == [op |-> name, arg |-> arg, ok |-> ok]

\* the state before the caller's first call
InitOneCall ==
    /\ pc = "idle"
    /\ call = "none"
    /\ ctxCancelled = FALSE
    /\ cluster = {}
    /\ ops = << >>
    /\ shouldRemove = [k \in Kinds |-> FALSE]
    /\ deferStack = << >>
    /\ retErr = NoErr
    /\ retHandles = {}
    /\ retTeardown = FALSE
    /\ teardownCalls = 0
    /\ tdQueue = << >>
    /\ attempt = 0
    /\ elapsed = 0
    /\ tickBuffered = FALSE
    /\ waitState = "idle"
    /\ waitErr = NoErr
    /\ sawReady = FALSE
    /\ pods = << >>
    /\ nodeNames = << >>
    /\ terminated = 0
    /\ nodeIdx = 0
    /\ nodeSelector = emptyNodeSelectors
    /\ cleanCalled = FALSE
    /\ clusterAtCall = {}
    /\ logged = << >>


\* --------------------------------------------------------- the cluster
\* kubernetesManager.Create<Kind>: a successful create makes the resource exist
CreateEffect(cl, k, ok) == IF ok THEN cl \cup {k} ELSE cl

\* kubernetesManager.Remove<Kind>: a successful remove makes the resource
\* absent; a failed one leaves the cluster as it was
RemoveEffect(cl, k, ok) == IF ok THEN cl \ {k} ELSE cl

\* ------------------------------------------------------ CreateAndStart
\* a CreateAndStart that registered no deferred removal for the cluster role
DeferPushForgettingClusterRole(stack, k) ==
    IF k = "ClusterRole" THEN stack ELSE << k >> \o stack

\* a CreateAndStart that registered its deferred removals first in, first out
DeferPushFirstInFirstOut(stack, k) == Append(stack, k)

\* `defer func() { if shouldRemove<Kind> { remove<Kind>Func() } }()`:
\* deferred functions run last registered first
DeferPush(stack, k) == << k >> \o stack

\* a failing return that handed out the handles of what was created so far
ReturnFailureWithHandles(err) ==
    /\ retErr' = err
    /\ retHandles' = cluster
    /\ retTeardown' = FALSE
    /\ pc' = "deferred"

\* `return nil, nil, nil, nil, nil, nil, nil, err`: the results are set, then
\* the deferred functions run
ReturnFailure(err) ==
    /\ retErr' = err
    /\ retHandles' = {}
    /\ retTeardown' = FALSE
    /\ pc' = "deferred"

\* the caller calls CreateAndStart, once, with a fresh ctx
CallCreateAndStart ==
    /\ pc = "idle"
    /\ pc' = "GenerateUUIDString"
    /\ call' = "CreateAndStart"
    /\ clusterAtCall' = cluster
    /\ logged' = << >>
    /\ UNCHANGED << ctxCancelled, cluster, ops, retErr, nodeSelector >>
    /\ UNCHANGED << provisionVars, teardownVars, waitVars, cleanVars >>
    /\ UNCHANGED << twoCallVars, portVars >>

\* the caller cancels the ctx of the call in progress
CancelCtx ==
    /\ pc \notin {"idle", "returned"}
    /\ call \in {"CreateAndStart", "Clean"}
    /\ ~ctxCancelled
    /\ ctxCancelled' = TRUE
    /\ UNCHANGED << pc, call, cluster, ops, retErr, nodeSelector, clusterAtCall >>
    /\ UNCHANGED << provisionVars, teardownVars, waitVars, cleanVars >>
    /\ UNCHANGED << logged, twoCallVars, portVars >>

\* a CreateAndStart that created the namespace before it generated the uuid
GenerateUUIDStringAfterNamespace ==
    /\ pc = "GenerateUUIDString"
    /\ ops' = Append(ops, Op("Create", "Namespace", TRUE))
    /\ cluster' = CreateEffect(cluster, "Namespace", TRUE)
    /\ shouldRemove' = [shouldRemove EXCEPT !["Namespace"] = TRUE]
    /\ deferStack' = DeferPush(deferStack, "Namespace")
    /\ \E ok \in BOOLEAN :
        IF ok
        THEN /\ pc' = "createLogsCollectorServiceAccount"
             /\ UNCHANGED << retErr, retHandles, retTeardown >>
        ELSE ReturnFailure(Propagate(BackendErr, "An error occurred creating uuid for logs collector."))
    /\ UNCHANGED << call, ctxCancelled, nodeSelector, clusterAtCall >>
    /\ UNCHANGED << teardownVars, waitVars, cleanVars >>
    /\ UNCHANGED << logged, twoCallVars, portVars >>

\* uuid_generator.GenerateUUIDString()
GenerateUUIDString ==
    /\ pc = "GenerateUUIDString"
    /\ \E ok \in BOOLEAN :
        IF ok
        THEN /\ pc' = "createLogsCollectorNamespace"
             /\ UNCHANGED << retErr, retHandles, retTeardown >>
        ELSE ReturnFailure(Propagate(BackendErr, "An error occurred creating uuid for logs collector."))
    /\ UNCHANGED << call, ctxCancelled, cluster, ops, shouldRemove, deferStack, nodeSelector, clusterAtCall >>
    /\ UNCHANGED << teardownVars, waitVars, cleanVars >>
    /\ UNCHANGED << logged, twoCallVars, portVars >>

\* One creation step: createLogsCollector<Kind> either fails before it reaches
\* the backend (attributes provider, config rendering), or issues the backend
\* create, which succeeds or fails.  On success the remove function's flag is
\* armed and its deferred call registered.
CreateStep(here, k, next) ==
    /\ pc = here
    /\ \E outcome \in {"created", "createFailed", "failedBeforeCreate"} :
        /\ ops' = IF outcome = "failedBeforeCreate"
                  THEN ops
                  ELSE Append(ops, Op("Create", k, outcome = "created"))
        /\ cluster' = CreateEffect(cluster, k, outcome = "created")
        /\ IF outcome = "created"
           THEN /\ shouldRemove' = [shouldRemove EXCEPT ![k] = TRUE]
                /\ deferStack' = DeferPush(deferStack, k)
                /\ pc' = next
                /\ UNCHANGED << retErr, retHandles, retTeardown >>
           ELSE /\ ReturnFailure(Propagate(BackendErr, CreateMsg(k)))
                /\ UNCHANGED << shouldRemove, deferStack >>
    /\ UNCHANGED << call, ctxCancelled, nodeSelector, clusterAtCall >>
    /\ UNCHANGED << teardownVars, waitVars, cleanVars >>
    /\ UNCHANGED << logged, twoCallVars, portVars >>

createLogsCollectorNamespace ==
    CreateStep("createLogsCollectorNamespace", "Namespace",
               "createLogsCollectorServiceAccount")

createLogsCollectorServiceAccount ==
    CreateStep("createLogsCollectorServiceAccount", "ServiceAccount",
               "createLogsCollectorClusterRole")

\* a CreateAndStart that issued the binding's creation where the cluster
\* role's belongs
createLogsCollectorClusterRoleBindingBeforeRole ==
    CreateStep("createLogsCollectorClusterRole", "ClusterRoleBinding",
               "createLogsCollectorClusterRoleBinding")

createLogsCollectorClusterRole ==
    CreateStep("createLogsCollectorClusterRole", "ClusterRole",
               "createLogsCollectorClusterRoleBinding")

createLogsCollectorClusterRoleBinding ==
    CreateStep("createLogsCollectorClusterRoleBinding", "ClusterRoleBinding",
               "createLogsCollectorConfigMap")

createLogsCollectorConfigMap ==
    CreateStep("createLogsCollectorConfigMap", "ConfigMap", "httpPortSpec")

\* a port step whose failure was recorded without a return
PortStepGoingOn(here, next, msg) ==
    /\ pc = here
    /\ \E ok \in BOOLEAN :
        /\ retErr' = IF ok THEN retErr ELSE Propagate(BackendErr, msg)
        /\ pc' = next
        /\ UNCHANGED << retHandles, retTeardown >>
    /\ UNCHANGED << call, ctxCancelled, cluster, ops, shouldRemove, deferStack, nodeSelector, clusterAtCall >>
    /\ UNCHANGED << teardownVars, waitVars, cleanVars >>
    /\ UNCHANGED << logged, twoCallVars, portVars >>

\* A step between the ConfigMap and the DaemonSet that calls no backend
\* operation and may fail: port_spec.NewPortSpec (twice) and
\* shared_helpers.GetKubernetesContainerPortsFromPrivatePortSpecs
PortStep(here, next, msg) ==
    /\ pc = here
    /\ \E ok \in BOOLEAN :
        IF ok
        THEN /\ pc' = next
             /\ UNCHANGED << retErr, retHandles, retTeardown >>
        ELSE ReturnFailure(Propagate(BackendErr, msg))
    /\ UNCHANGED << call, ctxCancelled, cluster, ops, shouldRemove, deferStack, nodeSelector, clusterAtCall >>
    /\ UNCHANGED << teardownVars, waitVars, cleanVars >>
    /\ UNCHANGED << logged, twoCallVars, portVars >>

httpPortSpec ==
    PortStep("httpPortSpec", "tcpPortSpec",
             "An error occurred creating the log collectors HTTP port spec object")

tcpPortSpec ==
    PortStep("tcpPortSpec", "containerPorts",
             "An error occurred creating the log collectors TCP port spec object")

containerPorts ==
    PortStep("containerPorts", "createLogsCollectorDaemonSet",
             "An error occurred getting the logs collector fluent bit container ports from the port specs")

\* the state of waitForAtLeastOneActivePodManagedByDaemonSet at its call:
\* timeoutCtx and the ticker are created, attempt := 0
StartWaiter ==
    /\ waitState' = "running"
    /\ attempt' = 0
    /\ elapsed' = 0
    /\ tickBuffered' = FALSE
    /\ waitErr' = NoErr
    /\ sawReady' = FALSE

\* the waiter's frame is gone once its caller has taken the error it returned
\* (`if err = wait...; err != nil`)
DropWaiter ==
    /\ waitState' = "idle"
    /\ attempt' = 0
    /\ elapsed' = 0
    /\ tickBuffered' = FALSE
    /\ sawReady' = FALSE
    /\ UNCHANGED waitErr

\* createLogsCollectorDaemonSet, and on success the call of the waiter
createLogsCollectorDaemonSet ==
    /\ pc = "createLogsCollectorDaemonSet"
    /\ \E outcome \in {"created", "createFailed", "failedBeforeCreate"} :
        /\ ops' = IF outcome = "failedBeforeCreate"
                  THEN ops
                  ELSE Append(ops, Op("Create", "DaemonSet", outcome = "created"))
        /\ cluster' = CreateEffect(cluster, "DaemonSet", outcome = "created")
        /\ IF outcome = "created"
           THEN /\ shouldRemove' = [shouldRemove EXCEPT !["DaemonSet"] = TRUE]
                /\ deferStack' = DeferPush(deferStack, "DaemonSet")
                /\ pc' = "waitReady"
                /\ StartWaiter
                /\ UNCHANGED << retErr, retHandles, retTeardown >>
           ELSE /\ ReturnFailure(Propagate(BackendErr, CreateMsg("DaemonSet")))
                /\ UNCHANGED << shouldRemove, deferStack >>
                /\ UNCHANGED waitVars
    /\ UNCHANGED << call, ctxCancelled, nodeSelector, clusterAtCall >>
    /\ UNCHANGED << teardownVars, cleanVars >>
    /\ UNCHANGED << logged, twoCallVars, portVars >>

\* a CreateAndStart that cleared the flags before it looked at the waiter's err
ShouldRemoveClearedBeforeWait(flags, err) == [k \in Kinds |-> FALSE]

\* a CreateAndStart that left the namespace's flag set on the path past the wait
ShouldRemoveAfterWaitKeepingNamespace(flags, err) ==
    IF err = NoErr THEN [k \in Kinds |-> k = "Namespace"] ELSE flags

\* the six shouldRemove flags after the waiter returned err: all are set to
\* false only on the path past `if err = wait...; err != nil { return }`
ShouldRemoveAfterWait(flags, err) ==
    IF err = NoErr THEN [k \in Kinds |-> FALSE] ELSE flags

\* CreateAndStart after the waiter has returned: fail, or commit
AfterWaitReady ==
    /\ pc = "waitReady"
    /\ waitState = "returned"
    /\ shouldRemove' = ShouldRemoveAfterWait(shouldRemove, waitErr)
    /\ IF waitErr # NoErr
       THEN ReturnFailure(Propagate(waitErr, WaitMsg))
       ELSE /\ retErr' = NoErr
            /\ retHandles' = Kinds
            /\ retTeardown' = TRUE
            /\ pc' = "deferred"
    /\ DropWaiter
    /\ UNCHANGED << call, ctxCancelled, cluster, ops, deferStack, nodeSelector, clusterAtCall >>
    /\ UNCHANGED << teardownVars, cleanVars >>
    /\ UNCHANGED << logged, twoCallVars, portVars >>

\* a remove function whose failure replaced the error CreateAndStart returns
ErrAfterRemoveFuncReturningFailure(err, ok) ==
    IF ok THEN err ELSE Propagate(BackendErr, "Failed to remove")

\* remove<Kind>Func has no result: `if err := ...Remove<Kind>(...); err != nil`
\* ends in two logrus.Errorf calls, and the error CreateAndStart returns stays
ErrAfterRemoveFunc(err, ok) == err

\* the log after remove<Kind>Func: a failed remove is logged, with
\* "ACTION REQUIRED: You'll need to manually remove ..."
LogAfterRemoveFunc(log, k, ok) == IF ok THEN log ELSE Append(log, k)

\* one deferred function runs: it calls remove<Kind>Func if its flag is set.
\* remove<Kind>Func removes with context.Background() and only logs a failure.
RunDeferred ==
    /\ pc = "deferred"
    /\ deferStack # << >>
    /\ LET k == Head(deferStack) IN
        IF shouldRemove[k]
        THEN \E ok \in BOOLEAN :
                /\ ops' = Append(ops, Op("Remove", k, ok))
                /\ cluster' = RemoveEffect(cluster, k, ok)
                /\ logged' = LogAfterRemoveFunc(logged, k, ok)
                /\ retErr' = ErrAfterRemoveFunc(retErr, ok)
        ELSE UNCHANGED << ops, cluster, logged, retErr >>
    /\ deferStack' = Tail(deferStack)
    /\ UNCHANGED << pc, call, ctxCancelled, shouldRemove, retHandles, retTeardown, nodeSelector, clusterAtCall >>
    /\ UNCHANGED << teardownVars, waitVars, cleanVars >>
    /\ UNCHANGED << twoCallVars, portVars >>

\* every deferred function has run: CreateAndStart returns to its caller
ReturnCreateAndStart ==
    /\ pc = "deferred"
    /\ deferStack = << >>
    /\ pc' = "returned"
    /\ UNCHANGED << call, ctxCancelled, cluster, ops, shouldRemove, deferStack, retErr, retHandles, retTeardown, nodeSelector, clusterAtCall >>
    /\ UNCHANGED << teardownVars, waitVars, cleanVars >>
    /\ UNCHANGED << logged, twoCallVars, portVars >>


\* ------------------------- waitForAtLeastOneActivePodManagedByDaemonSet
\* pod.Status.ContainerStatuses as the waiter reads it: the Ready flag of each
\* container status, in order
ContainerStatusLists ==
    UNION { [1..n -> BOOLEAN] : n \in 0..MaxContainerStatuses }

\* a listing of the daemon set's pods as the waiter reads it: the container
\* statuses of each pod, in the order the backend lists the pods
ReadinessListings ==
    UNION { [1..n -> ContainerStatusLists] : n \in 0..MaxPods }

\* the time one pod listing takes: the backend answers at once, or later
QueryLatencies == { n * retryInterval : n \in 0..MaxQueryLatency }

\* `len(pods) > 0 && len(pods[0].Status.ContainerStatuses) > 0 &&
\*  pods[0].Status.ContainerStatuses[0].Ready`
FoundRunningPod(ps) ==
    /\ Len(ps) > 0
    /\ Len(ps[1]) > 0
    /\ ps[1][1]

\* at least one listed pod has at least one container status reporting ready
AnyContainerReady(ps) ==
    \E i \in 1..Len(ps) : \E j \in 1..Len(ps[i]) : ps[i][j]

\* what a listing shows: to the waiter (found: its condition holds), and in
\* fact (anyReady: some container status of some pod reports ready)
ListingViews ==
    { [found |-> FoundRunningPod(ps), anyReady |-> AnyContainerReady(ps)] :
        ps \in ReadinessListings }

\* a waiter that went on to the next attempt after a failed listing
TickOutcomeRetryingErrors(ok, found) ==
    IF ok /\ found THEN "return nil" ELSE "next attempt"

\* what the `case <-ticker.C:` branch does with the listing's result
TickOutcome(ok, found) ==
    IF ~ok THEN "return err"
    ELSE IF found THEN "return nil"
    ELSE "next attempt"

\* a waiter whose timeoutCtx was derived from context.Background()
TimeoutCtxDoneIgnoringCancel == elapsed >= maxRetries * retryInterval

\* `<-timeoutCtx.Done()` is ready: the deadline maxRetries*retryInterval has
\* passed, or the parent ctx is cancelled
TimeoutCtxDone == ctxCancelled \/ elapsed >= maxRetries * retryInterval

\* a waiter whose loop ran while attempt <= maxRetries
WaiterRunningOneMoreAttempt == waitState = "running" /\ attempt <= maxRetries

WaiterRunning == waitState = "running" /\ attempt < maxRetries

\* select blocks: no case is ready, so time passes until the ticker fires
WaitSleep ==
    /\ WaiterRunning
    /\ ~tickBuffered
    /\ ~TimeoutCtxDone
    /\ elapsed' = elapsed + retryInterval
    /\ tickBuffered' = TRUE
    /\ UNCHANGED << attempt, waitState, waitErr, sawReady >>
    /\ UNCHANGED << pc, call, ctxCancelled, cluster, ops, retErr, nodeSelector, clusterAtCall >>
    /\ UNCHANGED << provisionVars, teardownVars, cleanVars >>
    /\ UNCHANGED << logged, twoCallVars, portVars >>

\* select takes `case <-timeoutCtx.Done():`
WaitTimeout ==
    /\ WaiterRunning
    /\ TimeoutCtxDone
    /\ waitState' = "returned"
    /\ waitErr' = NewError(TimeoutMsg)
    /\ UNCHANGED << attempt, elapsed, tickBuffered, sawReady >>
    /\ UNCHANGED << pc, call, ctxCancelled, cluster, ops, retErr, nodeSelector, clusterAtCall >>
    /\ UNCHANGED << provisionVars, teardownVars, cleanVars >>
    /\ UNCHANGED << logged, twoCallVars, portVars >>

\* select takes `case <-ticker.C:`: one listing of the pods, with the caller's
\* ctx; the ticker keeps at most one tick while the listing runs
WaitTick ==
    /\ WaiterRunning
    /\ tickBuffered
    /\ \E ok \in BOOLEAN, d \in QueryLatencies :
        \E v \in IF ok THEN ListingViews ELSE { [found |-> FALSE, anyReady |-> FALSE] } :
            /\ ops' = Append(ops, Op("GetPodsManagedByDaemonSet", "DaemonSet", ok))
            /\ elapsed' = elapsed + d
            /\ tickBuffered' = (d >= retryInterval)
            /\ sawReady' = (sawReady \/ (ok /\ v.anyReady))
            /\ LET outcome == TickOutcome(ok, v.found) IN
                /\ waitState' = IF outcome = "next attempt" THEN "running" ELSE "returned"
                /\ attempt' = IF outcome = "next attempt" THEN attempt + 1 ELSE attempt
                /\ waitErr' = IF outcome = "return err"
                              THEN Propagate(BackendErr, GetPodsMsg)
                              ELSE NoErr
    /\ UNCHANGED << pc, call, ctxCancelled, cluster, retErr, nodeSelector, clusterAtCall >>
    /\ UNCHANGED << provisionVars, teardownVars, cleanVars >>
    /\ UNCHANGED << logged, twoCallVars, portVars >>

\* the loop ends with attempt = maxRetries
WaitExhausted ==
    /\ waitState = "running"
    /\ attempt >= maxRetries
    /\ waitState' = "returned"
    /\ waitErr' = NewError(ExceededMsg)
    /\ UNCHANGED << attempt, elapsed, tickBuffered, sawReady >>
    /\ UNCHANGED << pc, call, ctxCancelled, cluster, ops, retErr, nodeSelector, clusterAtCall >>
    /\ UNCHANGED << provisionVars, teardownVars, cleanVars >>
    /\ UNCHANGED << logged, twoCallVars, portVars >>

\* ------------------------------------------------ removeLogsCollectorFunc
\* a teardown that removed in the order of creation
TeardownOrderAsCreated == CreationOrder

\* the remove functions removeLogsCollectorFunc calls, in its order
TeardownOrder ==
    << "DaemonSet", "ConfigMap", "ClusterRoleBinding",
       "ClusterRole", "ServiceAccount", "Namespace" >>

\* the caller invokes the teardown capability CreateAndStart returned; the
\* frames of the calls that returned before are gone
InvokeTeardown ==
    /\ pc = "returned"
    /\ retTeardown
    /\ teardownCalls < MaxTeardownCalls
    /\ pc' = "removeLogsCollectorFunc"
    /\ call' = "removeLogsCollectorFunc"
    /\ teardownCalls' = teardownCalls + 1
    /\ tdQueue' = TeardownOrder
    /\ ops' = << >>
    /\ retErr' = NoErr
    /\ ctxCancelled' = FALSE
    /\ pods' = << >>
    /\ nodeNames' = << >>
    /\ terminated' = 0
    /\ nodeIdx' = 0
    /\ waitErr' = NoErr
    /\ clusterAtCall' = cluster
    /\ logged' = << >>
    /\ UNCHANGED << cluster, nodeSelector, cleanCalled >>
    /\ UNCHANGED << provisionVars, waitLocals >>
    /\ UNCHANGED << twoCallVars, portVars >>

\* a remove function that re-raised a failed remove would end the teardown
AfterRemoveFuncReraising(queue, ok) == IF ok THEN Tail(queue) ELSE << >>

\* remove<Kind>Func logs a failed remove and returns nothing: its caller goes
\* on with the next remove function whatever the backend answered
AfterRemoveFunc(queue, ok) == Tail(queue)

\* removeLogsCollectorFunc calls its next remove function, which removes with
\* context.Background(), logs a failure and returns nothing
TeardownStep ==
    /\ pc = "removeLogsCollectorFunc"
    /\ tdQueue # << >>
    /\ \E ok \in BOOLEAN :
        /\ ops' = Append(ops, Op("Remove", Head(tdQueue), ok))
        /\ cluster' = RemoveEffect(cluster, Head(tdQueue), ok)
        /\ tdQueue' = AfterRemoveFunc(tdQueue, ok)
        /\ logged' = LogAfterRemoveFunc(logged, Head(tdQueue), ok)
    /\ UNCHANGED << pc, call, ctxCancelled, retErr, nodeSelector, clusterAtCall, teardownCalls >>
    /\ UNCHANGED << provisionVars, waitVars, cleanVars >>
    /\ UNCHANGED << twoCallVars, portVars >>

\* removeLogsCollectorFunc returns
TeardownReturn ==
    /\ pc = "removeLogsCollectorFunc"
    /\ tdQueue = << >>
    /\ pc' = "returned"
    /\ UNCHANGED << call, ctxCancelled, cluster, ops, retErr, nodeSelector, clusterAtCall >>
    /\ UNCHANGED << provisionVars, teardownVars, waitVars, cleanVars >>
    /\ UNCHANGED << logged, twoCallVars, portVars >>


\* ------------------------------------------------------------------ Clean
\* a listing of the daemon set's pods as Clean reads it: pod.Spec.NodeName of
\* each pod, in the order the backend lists the pods (pod i is named by i)
NodeListings == UNION { [1..n -> Nodes] : n \in 0..MaxPods }

\* `for _, pod := range pods { nodeNames = append(nodeNames, pod.Spec.NodeName) }`
NodeNamesOf(ps) == [i \in 1..Len(ps) |-> ps[i]]

GetPodsCleanMsg == "An error occurred getting pods managed by daemon set"
NoPodsMsg == "No pods found for logs collector daemon set"
EvictMsg == "An error occurred updating daemon set with node selectors (evict)"
TerminationMsg == "An error occurred waiting for pod"
RemoveDirMsg == "An error occurred removing dir path from node via a pod"
GetLatestMsg == "An error occurred getting latest"
RestoreMsg == "An error occurred updating daemon set with node selectors (restore)"
CleanWaitMsg == "An error occurred waiting for at least one pod managed by daemon set has become available."

\* `return stacktrace.Propagate(...)` / `return nil`: Clean has no deferred
\* functions, it returns to its caller at once
CleanReturn(err) ==
    /\ retErr' = err
    /\ pc' = "returned"

\* the caller calls Clean, once, with the daemon set CreateAndStart returned
\* and a fresh ctx, before any teardown
CallClean ==
    /\ pc = "returned"
    /\ "DaemonSet" \in retHandles
    /\ ~cleanCalled
    /\ teardownCalls = 0
    /\ pc' = "Clean.GetPodsManagedByDaemonSet"
    /\ call' = "Clean"
    /\ cleanCalled' = TRUE
    /\ ops' = << >>
    /\ retErr' = NoErr
    /\ ctxCancelled' = FALSE
    /\ waitErr' = NoErr
    /\ clusterAtCall' = cluster
    /\ logged' = << >>
    /\ UNCHANGED << cluster, nodeSelector, pods, nodeNames, terminated, nodeIdx >>
    /\ UNCHANGED << provisionVars, teardownVars, waitLocals >>
    /\ UNCHANGED << twoCallVars, portVars >>

\* Discover: list the pods, return on an error or on no pods, record the nodes.
\* In the no-pods branch err is nil, and Propagate of a nil cause is nil.
CleanDiscover ==
    /\ pc = "Clean.GetPodsManagedByDaemonSet"
    /\ \E ok \in BOOLEAN :
        \E ps \in IF ok THEN NodeListings ELSE { << >> } :
            LET err == IF ok THEN NoErr ELSE BackendErr IN
            /\ ops' = Append(ops, Op("GetPodsManagedByDaemonSet", "DaemonSet", ok))
            /\ IF err # NoErr
               THEN /\ CleanReturn(Propagate(err, GetPodsCleanMsg))
                    /\ UNCHANGED << pods, nodeNames >>
               ELSE IF Len(ps) = 0
               THEN /\ CleanReturn(Propagate(err, NoPodsMsg))
                    /\ UNCHANGED << pods, nodeNames >>
               ELSE /\ pods' = ps
                    /\ nodeNames' = NodeNamesOf(ps)
                    /\ pc' = "Clean.evict"
                    /\ UNCHANGED retErr
    /\ UNCHANGED << call, ctxCancelled, cluster, nodeSelector, terminated, nodeIdx, cleanCalled, clusterAtCall >>
    /\ UNCHANGED << provisionVars, teardownVars, waitVars >>
    /\ UNCHANGED << logged, twoCallVars, portVars >>

\* a Clean that went on after a failed wait for a pod's termination
AbortsOnFailureButTermination(step, ok) ==
    ~ok /\ step # "await termination"

\* a Clean that went on to the next node after a failed wipe
AbortsOnFailureButWipe(step, ok) ==
    ~ok /\ step # "per-node side effect"

\* a Clean that patched the node selector back although the re-fetch failed
AbortsOnFailureButRefetch(step, ok) ==
    ~ok /\ step # "re-fetch"

\* a Clean that went on to terminate and wipe after a failed eviction patch
AbortsOnFailureButEvict(step, ok) ==
    ~ok /\ step # "evict"

\* `if err != nil { return stacktrace.Propagate(err, ...) }` after each step
\* of Clean: a failed step makes Clean return
AbortsOnFailure(step, ok) == ~ok

\* a Clean that issued the eviction patch again after it failed
CleanEvictRetrying ==
    /\ pc = "Clean.evict"
    /\ \E ok \in BOOLEAN :
        /\ ops' = Append(ops, Op("UpdateDaemonSetWithNodeSelectors", evictNodeSelectors, ok))
        /\ nodeSelector' = IF ok THEN evictNodeSelectors ELSE nodeSelector
        /\ pc' = IF ok THEN "Clean.WaitForPodTermination" ELSE pc
        /\ UNCHANGED retErr
    /\ terminated' = 0
    /\ nodeIdx' = 0
    /\ UNCHANGED << call, ctxCancelled, cluster, pods, nodeNames, cleanCalled, clusterAtCall >>
    /\ UNCHANGED << provisionVars, teardownVars, waitVars >>
    /\ UNCHANGED << logged, twoCallVars, portVars >>

\* Evict: patch the daemon set's node selector to evictNodeSelectors
CleanEvict ==
    /\ pc = "Clean.evict"
    /\ \E ok \in BOOLEAN :
        /\ ops' = Append(ops, Op("UpdateDaemonSetWithNodeSelectors", evictNodeSelectors, ok))
        /\ nodeSelector' = IF ok THEN evictNodeSelectors ELSE nodeSelector
        /\ IF AbortsOnFailure("evict", ok)
           THEN CleanReturn(Propagate(BackendErr, EvictMsg))
           ELSE /\ pc' = "Clean.WaitForPodTermination"
                /\ UNCHANGED retErr
    /\ terminated' = 0
    /\ nodeIdx' = 0
    /\ UNCHANGED << call, ctxCancelled, cluster, pods, nodeNames, cleanCalled, clusterAtCall >>
    /\ UNCHANGED << provisionVars, teardownVars, waitVars >>
    /\ UNCHANGED << logged, twoCallVars, portVars >>

\* Await termination: `for _, pod := range pods`, one wait per iteration
CleanWaitForPodTermination ==
    /\ pc = "Clean.WaitForPodTermination"
    /\ terminated < Len(pods)
    /\ \E ok \in BOOLEAN :
        /\ ops' = Append(ops, Op("WaitForPodTermination", ToString(terminated + 1), ok))
        /\ IF AbortsOnFailure("await termination", ok)
           THEN /\ CleanReturn(Propagate(BackendErr, TerminationMsg))
                /\ UNCHANGED terminated
           ELSE /\ terminated' = terminated + 1
                /\ pc' = IF terminated + 1 = Len(pods)
                         THEN "Clean.RemoveDirPathFromNode"
                         ELSE pc
                /\ UNCHANGED retErr
    /\ UNCHANGED << call, ctxCancelled, cluster, nodeSelector, pods, nodeNames, nodeIdx, cleanCalled, clusterAtCall >>
    /\ UNCHANGED << provisionVars, teardownVars, waitVars >>
    /\ UNCHANGED << logged, twoCallVars, portVars >>

\* Per-node side effect: `for _, node := range nodeNames`, one wipe per iteration
CleanRemoveDirPathFromNode ==
    /\ pc = "Clean.RemoveDirPathFromNode"
    /\ nodeIdx < Len(nodeNames)
    /\ \E ok \in BOOLEAN :
        /\ ops' = Append(ops, Op("RemoveDirPathFromNode", nodeNames[nodeIdx + 1], ok))
        /\ IF AbortsOnFailure("per-node side effect", ok)
           THEN /\ CleanReturn(Propagate(BackendErr, RemoveDirMsg))
                /\ UNCHANGED nodeIdx
           ELSE /\ nodeIdx' = nodeIdx + 1
                /\ pc' = IF nodeIdx + 1 = Len(nodeNames)
                         THEN "Clean.GetDaemonSet"
                         ELSE pc
                /\ UNCHANGED retErr
    /\ UNCHANGED << call, ctxCancelled, cluster, nodeSelector, pods, nodeNames, terminated, cleanCalled, clusterAtCall >>
    /\ UNCHANGED << provisionVars, teardownVars, waitVars >>
    /\ UNCHANGED << logged, twoCallVars, portVars >>

\* Restore, first half: re-fetch the daemon set
CleanGetDaemonSet ==
    /\ pc = "Clean.GetDaemonSet"
    /\ \E ok \in BOOLEAN :
        /\ ops' = Append(ops, Op("GetDaemonSet", "DaemonSet", ok))
        /\ IF AbortsOnFailure("re-fetch", ok)
           THEN CleanReturn(Propagate(BackendErr, GetLatestMsg))
           ELSE /\ pc' = "Clean.restore"
                /\ UNCHANGED retErr
    /\ UNCHANGED << call, ctxCancelled, cluster, nodeSelector, clusterAtCall >>
    /\ UNCHANGED << provisionVars, teardownVars, waitVars, cleanVars >>
    /\ UNCHANGED << logged, twoCallVars, portVars >>

\* Restore, second half: patch the node selector to map[string]string{}, and
\* on success call the waiter
CleanRestore ==
    /\ pc = "Clean.restore"
    /\ \E ok \in BOOLEAN :
        /\ ops' = Append(ops, Op("UpdateDaemonSetWithNodeSelectors", emptyNodeSelectors, ok))
        /\ nodeSelector' = IF ok THEN emptyNodeSelectors ELSE nodeSelector
        /\ IF AbortsOnFailure("restore", ok)
           THEN /\ CleanReturn(Propagate(BackendErr, RestoreMsg))
                /\ UNCHANGED waitVars
           ELSE /\ pc' = "Clean.waitReady"
                /\ StartWaiter
                /\ UNCHANGED retErr
    /\ UNCHANGED << call, ctxCancelled, cluster, clusterAtCall >>
    /\ UNCHANGED << provisionVars, teardownVars, cleanVars >>
    /\ UNCHANGED << logged, twoCallVars, portVars >>

\* Re-verify: Clean after the waiter has returned
CleanAfterWaitReady ==
    /\ pc = "Clean.waitReady"
    /\ waitState = "returned"
    /\ CleanReturn(Propagate(waitErr, CleanWaitMsg))
    /\ DropWaiter
    /\ UNCHANGED << call, ctxCancelled, cluster, ops, nodeSelector, clusterAtCall >>
    /\ UNCHANGED << provisionVars, teardownVars, cleanVars >>
    /\ UNCHANGED << logged, twoCallVars, portVars >>

\* ----------------------------------------- two concurrent CreateAndStart
\* Two callers run CreateAndStart at once, each for its own deployment.  Every
\* call has its own frame (its flags, its deferred functions, its results);
\* the cluster is the one thing they share.  The waiter only lists pods, so
\* here it is one step that returns any of the errors it can return.
Calls == {"A", "B"}

\* the name of a resource: the attributes provider derives it from the uuid
\* the call generated (`ForLogsCollector(logsCollectorGuid)`), and two calls
\* generate two uuids
ResourceName(c, k) == << c, k >>

\* remove functions that looked the resource up by its kind and so removed
\* the one of the first deployment
RemovedNameByKindAlone(c, k) == << "A", k >>

\* remove<Kind>Func removes the object its own create returned
\* (`RemoveNamespace(removeCtx, namespace)`, ...)
RemovedName(c, k) == ResourceName(c, k)

WaiterErrors ==
    { NoErr, NewError(TimeoutMsg), NewError(ExceededMsg),
      Propagate(BackendErr, GetPodsMsg) }

IdleFrame ==
    [ pc |-> "idle", step |-> 0,
      shouldRemove |-> [k \in Kinds |-> FALSE], deferStack |-> << >>,
      retErr |-> NoErr, retTeardown |-> FALSE, tdQueue |-> << >>,
      created |-> {}, removed |-> {} ]

\* the frame of call c after a `return nil, ..., err`
FailedFrame(c, err) ==
    [calls[c] EXCEPT !.retErr = err, !.retTeardown = FALSE, !.pc = "deferred"]

ConcurrentCall(c) ==
    /\ calls[c].pc = "idle"
    /\ calls' = [calls EXCEPT ![c].pc = "GenerateUUIDString"]
    /\ UNCHANGED sharedCluster

ConcurrentGenerateUUIDString(c) ==
    /\ calls[c].pc = "GenerateUUIDString"
    /\ \E ok \in BOOLEAN :
        calls' = [calls EXCEPT ![c] =
            IF ok
            THEN [calls[c] EXCEPT !.pc = "create", !.step = 1]
            ELSE FailedFrame(c, Propagate(BackendErr, "An error occurred creating uuid for logs collector."))]
    /\ UNCHANGED sharedCluster

\* the six creation steps, in CreationOrder; the port steps lie before the
\* sixth
ConcurrentCreate(c) ==
    /\ calls[c].pc = "create"
    /\ LET k == CreationOrder[calls[c].step] IN
       \E ok \in BOOLEAN :
        /\ sharedCluster' = IF ok THEN sharedCluster \cup {ResourceName(c, k)}
                                  ELSE sharedCluster
        /\ calls' = [calls EXCEPT ![c] =
            IF ok
            THEN [calls[c] EXCEPT
                    !.shouldRemove[k] = TRUE,
                    !.deferStack = DeferPush(calls[c].deferStack, k),
                    !.created = calls[c].created \cup {ResourceName(c, k)},
                    !.step = calls[c].step + 1,
                    !.pc = IF k = "ConfigMap" THEN "portSpecs"
                           ELSE IF k = "DaemonSet" THEN "waitReady"
                           ELSE "create"]
            ELSE FailedFrame(c, Propagate(BackendErr, CreateMsg(k)))]

\* NewPortSpec, twice, and GetKubernetesContainerPortsFromPrivatePortSpecs
ConcurrentPortSpecs(c) ==
    /\ calls[c].pc = "portSpecs"
    /\ \E ok \in BOOLEAN :
        calls' = [calls EXCEPT ![c] =
            IF ok
            THEN [calls[c] EXCEPT !.pc = "create"]
            ELSE FailedFrame(c, Propagate(BackendErr, "An error occurred creating the log collectors port spec objects"))]
    /\ UNCHANGED sharedCluster

\* the waiter returns, and CreateAndStart fails or commits
ConcurrentWaitReady(c) ==
    /\ calls[c].pc = "waitReady"
    /\ \E err \in WaiterErrors :
        calls' = [calls EXCEPT ![c] =
            IF err # NoErr
            THEN FailedFrame(c, Propagate(err, WaitMsg))
            ELSE [calls[c] EXCEPT
                    !.shouldRemove = ShouldRemoveAfterWait(calls[c].shouldRemove, err),
                    !.retErr = NoErr, !.retTeardown = TRUE, !.pc = "deferred"]]
    /\ UNCHANGED sharedCluster

ConcurrentRunDeferred(c) ==
    /\ calls[c].pc = "deferred"
    /\ calls[c].deferStack # << >>
    /\ LET k == Head(calls[c].deferStack) IN
        IF calls[c].shouldRemove[k]
        THEN \E ok \in BOOLEAN :
                /\ sharedCluster' = IF ok THEN sharedCluster \ {RemovedName(c, k)}
                                          ELSE sharedCluster
                /\ calls' = [calls EXCEPT
                        ![c].deferStack = Tail(calls[c].deferStack),
                        ![c].removed = calls[c].removed \cup {RemovedName(c, k)}]
        ELSE /\ calls' = [calls EXCEPT ![c].deferStack = Tail(calls[c].deferStack)]
             /\ UNCHANGED sharedCluster

ConcurrentReturn(c) ==
    /\ calls[c].pc = "deferred"
    /\ calls[c].deferStack = << >>
    /\ calls' = [calls EXCEPT ![c].pc = "returned"]
    /\ UNCHANGED sharedCluster

\* the caller of c invokes the teardown capability it got, once
ConcurrentInvokeTeardown(c) ==
    /\ calls[c].pc = "returned"
    /\ calls[c].retTeardown
    /\ calls' = [calls EXCEPT ![c].pc = "removeLogsCollectorFunc",
                              ![c].tdQueue = TeardownOrder]
    /\ UNCHANGED sharedCluster

ConcurrentTeardownStep(c) ==
    /\ calls[c].pc = "removeLogsCollectorFunc"
    /\ calls[c].tdQueue # << >>
    /\ LET k == Head(calls[c].tdQueue) IN
       \E ok \in BOOLEAN :
        /\ sharedCluster' = IF ok THEN sharedCluster \ {RemovedName(c, k)}
                                  ELSE sharedCluster
        /\ calls' = [calls EXCEPT
                ![c].tdQueue = Tail(calls[c].tdQueue),
                ![c].removed = calls[c].removed \cup {RemovedName(c, k)}]

ConcurrentTeardownReturn(c) ==
    /\ calls[c].pc = "removeLogsCollectorFunc"
    /\ calls[c].tdQueue = << >>
    /\ calls' = [calls EXCEPT ![c].pc = "tornDown"]
    /\ UNCHANGED sharedCluster

\* ------------------------------------------------ the DaemonSet's container
\* the port numbers (uint16) and the port ids (string) a caller may pass
PortNumbers == 1..MaxPortNumber
PortIds == {"http", "tcp", "metrics"}

PortArgs ==
    [ httpPortNumber : PortNumbers, tcpPortNumber : PortNumbers,
      logsCollectorHttpPortId : PortIds, logsCollectorTcpPortId : PortIds ]

\* port_spec.NewPortSpec(number, TransportProtocol_TCP, httpProtocolStr, noWait, emptyUrl)
NewPortSpec(number) ==
    [ number |-> number, transportProtocol |-> "TCP",
      applicationProtocol |-> "http" ]

\* a map literal that left out the TCP port's element
privatePortsWithoutTcp(args) ==
    [ id \in {args.logsCollectorHttpPortId} |-> NewPortSpec(args.httpPortNumber) ]

\* `privatePorts := map[string]*port_spec.PortSpec{tcpId: tcpPortSpec,
\* httpId: httpPortSpec}`: a map has one entry per key, and of two elements
\* under one key the one written last stays
privatePorts(args) ==
    [ id \in {args.logsCollectorTcpPortId, args.logsCollectorHttpPortId} |->
        IF id = args.logsCollectorHttpPortId
        THEN NewPortSpec(args.httpPortNumber)
        ELSE NewPortSpec(args.tcpPortNumber) ]

\* shared_helpers.GetKubernetesContainerPortsFromPrivatePortSpecs: one
\* container port per entry of the map, named by the port id
GetKubernetesContainerPortsFromPrivatePortSpecs(pp) ==
    { [ Name |-> id, ContainerPort |-> pp[id].number,
        Protocol |-> pp[id].transportProtocol ] : id \in DOMAIN pp }

\* `VolumeMounts: []apiv1.VolumeMount{...}` of the one container
VolumeMounts ==
    << "varLogVolumeName", "varLibDockerContainersVolumeName",
       "varLogDockerContainersVolumeName", "fluentBitConfigVolumeName",
       "fluentBitHostLogsVolumeName", "fluentBitCheckpointDbVolumeName" >>

NoDaemonSet == [ created |-> FALSE, Ports |-> {}, VolumeMounts |-> << >> ]

\* the port arguments of the one call of the one-caller specification: two
\* different port numbers under two different port ids
DefaultPortArgs ==
    [ httpPortNumber |-> 1, tcpPortNumber |-> 2,
      logsCollectorHttpPortId |-> "http", logsCollectorTcpPortId |-> "tcp" ]

\* CreateAndStart from the port specs up to the DaemonSet handed to
\* kubernetesManager.CreateDaemonSet, when no step of it fails
CreateDaemonSetContainer ==
    /\ ~daemonSet.created
    /\ daemonSet' =
        [ created |-> TRUE,
          Ports |-> GetKubernetesContainerPortsFromPrivatePortSpecs(privatePorts(portArgs)),
          VolumeMounts |-> VolumeMounts ]
    /\ UNCHANGED portArgs

\* ------------------------------------------------------- specification
\* Init: no call made yet
Init ==
    /\ InitOneCall
    /\ calls = [c \in Calls |-> IdleFrame]
    /\ sharedCluster = {}
    /\ portArgs = DefaultPortArgs
    /\ daemonSet = NoDaemonSet

Next ==
    \/ CallCreateAndStart
    \/ CancelCtx
    \/ GenerateUUIDString
    \/ createLogsCollectorNamespace
    \/ createLogsCollectorServiceAccount
    \/ createLogsCollectorClusterRole
    \/ createLogsCollectorClusterRoleBinding
    \/ createLogsCollectorConfigMap
    \/ httpPortSpec
    \/ tcpPortSpec
    \/ containerPorts
    \/ createLogsCollectorDaemonSet
    \/ WaitSleep
    \/ WaitTimeout
    \/ WaitTick
    \/ WaitExhausted
    \/ AfterWaitReady
    \/ RunDeferred
    \/ ReturnCreateAndStart
    \/ InvokeTeardown
    \/ TeardownStep
    \/ TeardownReturn
    \/ CallClean
    \/ CleanDiscover
    \/ CleanEvict
    \/ CleanWaitForPodTermination
    \/ CleanRemoveDirPathFromNode
    \/ CleanGetDaemonSet
    \/ CleanRestore
    \/ CleanAfterWaitReady

Spec == Init /\ [][Next]_vars

\* the variables of the one-caller specification
oneCallVars ==
    << pc, call, ctxCancelled, cluster, ops, shouldRemove, deferStack,
       retErr, retHandles, retTeardown, teardownCalls, tdQueue,
       attempt, elapsed, tickBuffered, waitState, waitErr, sawReady,
       pods, nodeNames, terminated, nodeIdx, nodeSelector, cleanCalled,
       clusterAtCall, logged >>

\* two callers, each calling CreateAndStart once and, if it got one, the
\* teardown capability once, their steps interleaved in any way
NextConcurrent ==
    /\ \E c \in Calls :
        \/ ConcurrentCall(c)
        \/ ConcurrentGenerateUUIDString(c)
        \/ ConcurrentCreate(c)
        \/ ConcurrentPortSpecs(c)
        \/ ConcurrentWaitReady(c)
        \/ ConcurrentRunDeferred(c)
        \/ ConcurrentReturn(c)
        \/ ConcurrentInvokeTeardown(c)
        \/ ConcurrentTeardownStep(c)
        \/ ConcurrentTeardownReturn(c)
    /\ UNCHANGED << oneCallVars, portVars >>

SpecConcurrent == Init /\ [][NextConcurrent]_vars

\* any port numbers and port ids
InitPorts ==
    /\ InitOneCall
    /\ calls = [c \in Calls |-> IdleFrame]
    /\ sharedCluster = {}
    /\ portArgs \in PortArgs
    /\ daemonSet = NoDaemonSet

NextPorts ==
    /\ CreateDaemonSetContainer
    /\ UNCHANGED << oneCallVars, twoCallVars >>

SpecPorts == InitPorts /\ [][NextPorts]_vars

\* ------------------------------------------------------------ typing
TypeOK ==
    /\ cluster \subseteq Kinds
    /\ retHandles \subseteq Kinds
    /\ attempt \in 0..maxRetries
    /\ elapsed \in Nat
    /\ teardownCalls \in 0..MaxTeardownCalls
    /\ terminated \in 0..Len(pods)
    /\ nodeIdx \in 0..Len(nodeNames)
    /\ nodeSelector \in {emptyNodeSelectors, evictNodeSelectors}
    /\ waitState \in {"idle", "running", "returned"}


\* ------------------------------------------------- reading the operations
\* the targets of the removes the current call issued, in order
RemoveTargets ==
    LET removes == SelectSeq(ops, LAMBDA o : o.op = "Remove")
    IN  [i \in 1..Len(removes) |-> removes[i].arg]

\* the kinds the current call created
CreatedKinds ==
    { ops[i].arg : i \in { j \in 1..Len(ops) : ops[j].op = "Create" /\ ops[j].ok } }

AllRemovesSucceeded ==
    \A i \in 1..Len(ops) : ops[i].op = "Remove" => ops[i].ok

\* reverse dependency order, as the specification words it
ReverseDependencyOrder ==
    << "DaemonSet", "ConfigMap", "ClusterRoleBinding",
       "ClusterRole", "ServiceAccount", "Namespace" >>

IsPrefix(a, b) ==
    /\ Len(a) <= Len(b)
    /\ \A i \in 1..Len(a) : a[i] = b[i]

CreateAndStartReturned == pc = "returned" /\ call = "CreateAndStart"
TeardownReturned == pc = "returned" /\ call = "removeLogsCollectorFunc"
CleanReturned == pc = "returned" /\ call = "Clean"

\* the current call issued a listing of the pods that failed
SomeListingFailed ==
    \E i \in 1..Len(ops) :
        ops[i].op = "GetPodsManagedByDaemonSet" /\ ~ops[i].ok

LastOpFailed == ops # << >> /\ ~ops[Len(ops)].ok

\* ---------------------------------------------------------------- claims

\* C1: when CreateAndStart returns the failure of one of its six creation
\* steps and every remove it issued succeeded, none of the resources it
\* created exists in the cluster.
C1_Atomicity ==
    ( /\ CreateAndStartReturned
      /\ retErr # NoErr
      /\ Head(retErr) \in { CreateMsg(k) : k \in Kinds }
      /\ AllRemovesSucceeded )
    => /\ cluster \cap CreatedKinds = {}
       /\ cluster = {}

\* C1 witness: the DaemonSet creation failed after five resources were
\* created, all five were removed, and the cluster is empty at the return.
C1_Witness ==
    /\ CreateAndStartReturned
    /\ retErr # NoErr
    /\ Head(retErr) = CreateMsg("DaemonSet")
    /\ Cardinality(CreatedKinds) = 5
    /\ Len(RemoveTargets) = 5
    /\ AllRemovesSucceeded
    /\ cluster = {}

\* C2: when all six resources were created and the waiter returned an error
\* (timeout, attempts exhausted or backend error), CreateAndStart returns a
\* failure and has by then issued the removal of all six resources, DaemonSet
\* first and Namespace last.
C2_CommitOnlyAfterReady ==
    ( /\ CreateAndStartReturned
      /\ CreatedKinds = Kinds
      /\ waitErr # NoErr )
    => /\ retErr # NoErr
       /\ retHandles = {}
       /\ ~retTeardown
       /\ RemoveTargets = ReverseDependencyOrder

\* C2 witness: the waiter timed out after six creations and CreateAndStart
\* returned having removed all six.
C2_Witness ==
    /\ CreateAndStartReturned
    /\ CreatedKinds = Kinds
    /\ waitErr = NewError(TimeoutMsg)
    /\ ~ctxCancelled
    /\ retErr = Propagate(NewError(TimeoutMsg), WaitMsg)
    /\ RemoveTargets = ReverseDependencyOrder
    /\ cluster = {}

\* C3: the teardown capability issues removes only, in the order DaemonSet,
\* ConfigMap, ClusterRoleBinding, ClusterRole, ServiceAccount, Namespace, and
\* has issued all six when it returns.
C3_TeardownOrder ==
    call = "removeLogsCollectorFunc"
    => /\ \A i \in 1..Len(ops) : ops[i].op = "Remove"
       /\ IsPrefix(RemoveTargets, ReverseDependencyOrder)
       /\ pc = "returned" => RemoveTargets = ReverseDependencyOrder

\* C3 witness: the first invocation of the capability returned after six
\* successful removes and the cluster is empty.
C3_Witness ==
    /\ TeardownReturned
    /\ teardownCalls = 1
    /\ clusterAtCall = Kinds
    /\ Len(ops) = 6
    /\ AllRemovesSucceeded
    /\ cluster = {}

\* C4: an invocation of the teardown capability after an earlier one removed
\* all six resources leaves the cluster as it found it (empty) at every step,
\* and, whatever the backend answers to the removes of resources already
\* gone, goes through all six removes and returns; the capability has no
\* error result, a failed remove is only logged.
C4_IdempotentTeardown ==
    ( /\ call = "removeLogsCollectorFunc"
      /\ teardownCalls >= 2
      /\ clusterAtCall = {} )
    => /\ cluster = {}
       /\ retErr = NoErr
       /\ pc = "returned" => RemoveTargets = ReverseDependencyOrder

\* C4 witness: the second invocation returned on an empty cluster although
\* the backend answered a remove of a resource already gone with an error.
C4_Witness ==
    /\ TeardownReturned
    /\ teardownCalls = 2
    /\ clusterAtCall = {}
    /\ \E i \in 1..Len(ops) : ~ops[i].ok
    /\ Len(ops) = 6
    /\ cluster = {}

\* C5: a waiter whose listings all succeed and never show a ready container
\* status returns a timeout failure (deadline or attempts exhausted), never
\* success, and returns at or before maxRetries * retryInterval = 30
\* time-units after its call.
C5_ReadinessBound ==
    ( /\ waitState = "returned"
      /\ ~sawReady
      /\ ~SomeListingFailed )
    => /\ waitErr \in { NewError(TimeoutMsg), NewError(ExceededMsg) }
       /\ elapsed <= maxRetries * retryInterval

\* C6: the waiter returns success on the first tick whose listing shows at
\* least one pod with at least one ready container status, whatever the
\* position of the pod and of the container status, and on no earlier tick.
C6_SuccessOnFirstReadyTick ==
    /\ sawReady => (waitState = "returned" /\ waitErr = NoErr)
    /\ (waitState = "returned" /\ waitErr = NoErr) => sawReady

\* C7: a failed listing of the pods ends the wait on its tick: the waiter is
\* not running after it and issues no further listing, and the error it
\* returns wraps the backend's error under the listing message, which is
\* neither the timeout error nor the attempts-exhausted error.
C7_ListingErrorAborts ==
    /\ SomeListingFailed => waitState # "running"
    /\ \A i \in 1..Len(ops) :
        (ops[i].op = "GetPodsManagedByDaemonSet" /\ ~ops[i].ok) => i = Len(ops)
           \/ \A j \in (i + 1)..Len(ops) : ops[j].op # "GetPodsManagedByDaemonSet"
    /\ (waitState = "returned" /\ LastOpFailed)
        => /\ waitErr = Propagate(BackendErr, GetPodsMsg)
           /\ waitErr # NewError(TimeoutMsg)
           /\ waitErr # NewError(ExceededMsg)
           /\ waitErr # NoErr

\* C7 witness: the waiter returned the listing error on a tick after ticks
\* whose listings succeeded.
C7_Witness ==
    /\ waitState = "returned"
    /\ attempt >= 2
    /\ LastOpFailed
    /\ ops[Len(ops)].op = "GetPodsManagedByDaemonSet"
    /\ waitErr = Propagate(BackendErr, GetPodsMsg)


\* pod p was observed terminated before the i-th operation of the call
ObservedTerminatedBefore(p, i) ==
    \E j \in 1..(i - 1) : ops[j] = Op("WaitForPodTermination", ToString(p), TRUE)

\* C8: in Clean, when RemoveDirPathFromNode is invoked for a node, every pod
\* recorded at Discover has been observed terminated by a successful
\* WaitForPodTermination; after a failed termination wait no node is wiped.
C8_WipeOnlyAfterTermination ==
    call = "Clean"
    => \A i \in 1..Len(ops) :
        ops[i].op = "RemoveDirPathFromNode"
        => /\ \A p \in 1..Len(pods) : ObservedTerminatedBefore(p, i)
           /\ \A j \in 1..Len(ops) : ops[j].op = "WaitForPodTermination" => ops[j].ok

\* C8 witness: two pods on different nodes were recorded, both were observed
\* terminated, and both nodes were wiped.
C8_Witness ==
    /\ call = "Clean"
    /\ Len(pods) = 2
    /\ pods[1] # pods[2]
    /\ nodeIdx = 2
    /\ \E i \in 1..Len(ops) : ops[i] = Op("RemoveDirPathFromNode", pods[2], TRUE)

\* C9: when the Discover listing succeeds and lists no pod, Clean returns a
\* non-nil error and has issued no operation but that listing.
C9_ZeroPodsIsFatal ==
    ( /\ CleanReturned
      /\ Len(ops) >= 1
      /\ ops[1].ok
      /\ pods = << >> )
    => /\ retErr # NoErr
       /\ Len(ops) = 1

\* the message Clean wraps the failure of its operation o with
CleanFailureMsg(o, n) ==
    CASE o.op = "GetPodsManagedByDaemonSet" ->
            IF n = 1 THEN GetPodsCleanMsg ELSE CleanWaitMsg
      [] o.op = "UpdateDaemonSetWithNodeSelectors" ->
            IF o.arg = evictNodeSelectors THEN EvictMsg ELSE RestoreMsg
      [] o.op = "WaitForPodTermination" -> TerminationMsg
      [] o.op = "RemoveDirPathFromNode" -> RemoveDirMsg
      [] o.op = "GetDaemonSet" -> GetLatestMsg

\* C10: in Clean a failed operation is the last operation the call issues,
\* Clean then returns (at once, or as soon as the waiter has returned) a
\* non-nil error that wraps that failure under the failed step's message, and
\* a failure of the waiter at Re-verify, timeouts included, is returned too.
C10_CleanAbortsOnFailure ==
    call = "Clean"
    => /\ \A i \in 1..(Len(ops) - 1) : ops[i].ok
       /\ LastOpFailed
            => \/ /\ pc = "returned"
                  /\ retErr # NoErr
                  /\ Head(retErr) = CleanFailureMsg(ops[Len(ops)], Len(ops))
               \/ pc = "Clean.waitReady" /\ waitState = "returned" /\ waitErr # NoErr
       /\ (pc = "returned" /\ waitErr # NoErr)
            => retErr = Propagate(waitErr, CleanWaitMsg) /\ retErr # NoErr

\* C10 witness: the wipe of the first of two nodes failed, and Clean returned
\* that failure with the second node not wiped and nothing restored.
C10_Witness ==
    /\ CleanReturned
    /\ Len(nodeNames) = 2
    /\ nodeIdx = 0
    /\ ops[Len(ops)] = Op("RemoveDirPathFromNode", nodeNames[1], FALSE)
    /\ retErr = Propagate(BackendErr, RemoveDirMsg)
    /\ nodeSelector = evictNodeSelectors


\* ------------------------------------------------------------------------
\* the node-selector patches the current call issued, in order
SelectorPatches == SelectSeq(ops, LAMBDA o : o.op = "UpdateDaemonSetWithNodeSelectors")

\* the eviction patch of the current Clean succeeded
EvictionPatchSucceeded ==
    \E i \in 1..Len(ops) :
        /\ ops[i].op = "UpdateDaemonSetWithNodeSelectors"
        /\ ops[i].arg = "non-existent-label=true"
        /\ ops[i].ok

\* C11: when Clean has returned after its eviction patch succeeded and a wait
\* for a pod's termination, a wipe of a node or the re-fetch of the daemon
\* set failed, the eviction patch is the only node-selector patch it issued,
\* it returned a failure, and the daemon set's node selector is still
\* non-existent-label=true.
C11_NoAutoRestore ==
    ( /\ CleanReturned
      /\ EvictionPatchSucceeded
      /\ \E j \in 1..Len(ops) :
            /\ ops[j].op \in {"WaitForPodTermination", "RemoveDirPathFromNode", "GetDaemonSet"}
            /\ ~ops[j].ok )
    => /\ Len(SelectorPatches) = 1
       /\ nodeSelector = "non-existent-label=true"
       /\ retErr # NoErr

\* C11 witness: Clean returned on the failed wipe of the second of two nodes,
\* the selector still the eviction selector.
C11_Witness ==
    /\ CleanReturned
    /\ EvictionPatchSucceeded
    /\ Len(pods) = 2
    /\ ops[Len(ops)].op = "RemoveDirPathFromNode"
    /\ ~ops[Len(ops)].ok
    /\ nodeIdx = 1
    /\ Len(SelectorPatches) = 1
    /\ nodeSelector = "non-existent-label=true"

\* the pod listings the current call issued
Listings == SelectSeq(ops, LAMBDA o : o.op = "GetPodsManagedByDaemonSet")

\* C12: in CreateAndStart, a waiter that is suspended in its select (no tick
\* delivered) with the caller's ctx cancelled does one thing next: it returns
\* a failure, with no more time spent waiting.  And a CreateAndStart whose
\* ctx is cancelled and whose wait failed returns a failure after it issued
\* the removes of all six resources, last created first.
C12_CancelDuringWait ==
    [][ /\ ( /\ call = "CreateAndStart"
             /\ pc = "waitReady"
             /\ waitState = "running"
             /\ attempt < maxRetries
             /\ ctxCancelled
             /\ ~tickBuffered )
           => /\ waitState' = "returned"
              /\ waitErr' # NoErr
              /\ elapsed' = elapsed
              /\ ops' = ops
        /\ ( /\ call = "CreateAndStart"
             /\ pc = "deferred"
             /\ pc' = "returned"
             /\ ctxCancelled
             /\ waitErr # NoErr )
           => /\ retErr' # NoErr
              /\ retHandles' = {}
              /\ RemoveTargets' = ReverseDependencyOrder
      ]_vars

\* C12 witness: CreateAndStart returned the waiter's timeout failure after
\* two listings only, so the timeout is the cancellation's and came during
\* the wait; all six resources were removed under the cancelled ctx.
C12_Witness ==
    /\ CreateAndStartReturned
    /\ ctxCancelled
    /\ retErr = << WaitMsg, TimeoutMsg >>
    /\ Len(Listings) = 2
    /\ RemoveTargets = ReverseDependencyOrder
    /\ AllRemovesSucceeded
    /\ cluster = {}

\* a replica of the daemon set may be scheduled and running: the node
\* selector is not the eviction selector, or a pod recorded at Discover has
\* not been seen terminated
MayRunReplica ==
    \/ nodeSelector # "non-existent-label=true"
    \/ terminated < Len(pods)

\* the pods recorded at Discover lie on at least two nodes
ReplicasOnTwoNodes ==
    Cardinality({ pods[i] : i \in 1..Len(pods) }) >= 2

\* C13 as stated: in every state of a Clean call over replicas on at least two
\* nodes, a replica is scheduled and running.
C13_AvailabilityDuringClean ==
    ( /\ call = "Clean"
      /\ pc # "returned"
      /\ ReplicasOnTwoNodes )
    => MayRunReplica

\* C13: Clean wipes a node only while the daemon set is evicted.  Every wipe
\* it issues comes after its eviction patch succeeded, after every pod
\* recorded at Discover was seen terminated, and before any restore patch; and
\* while Clean is at its wipes the node selector is non-existent-label=true.
C13_NoReplicaDuringWipe ==
    /\ \A i \in 1..Len(ops) :
        ops[i].op = "RemoveDirPathFromNode" =>
            /\ \E j \in 1..(i - 1) :
                /\ ops[j].op = "UpdateDaemonSetWithNodeSelectors"
                /\ ops[j].arg = "non-existent-label=true"
                /\ ops[j].ok
            /\ \A j \in 1..(i - 1) :
                ops[j].op = "UpdateDaemonSetWithNodeSelectors" => ops[j].arg # "{}"
            /\ \A p \in 1..Len(pods) : ObservedTerminatedBefore(p, i)
    /\ ( call = "Clean" /\ pc = "Clean.RemoveDirPathFromNode" )
        => /\ nodeSelector = "non-existent-label=true"
           /\ ~MayRunReplica

\* C13 witness: Clean has wiped the first of two nodes and is about to wipe
\* the second, with no replica left on either.
C13_Witness ==
    /\ call = "Clean"
    /\ pc = "Clean.RemoveDirPathFromNode"
    /\ ReplicasOnTwoNodes
    /\ nodeIdx = 1
    /\ ~MayRunReplica


\* the creations the current call issued, in order
Creations == SelectSeq(ops, LAMBDA o : o.op = "Create")

\* the order of dependency, as the specification words it
DependencyOrder ==
    << "Namespace", "ServiceAccount", "ClusterRole",
       "ClusterRoleBinding", "ConfigMap", "DaemonSet" >>

\* C14: the creations CreateAndStart has issued are, in order, the first
\* kinds of Namespace, ServiceAccount, ClusterRole, ClusterRoleBinding,
\* ConfigMap, DaemonSet, one creation per kind, and every creation but the
\* last one issued has succeeded.
C14_CreationOrder ==
    call = "CreateAndStart" =>
        /\ Len(Creations) <= Len(DependencyOrder)
        /\ \A i \in 1..Len(Creations) :
            /\ Creations[i].arg = DependencyOrder[i]
            /\ i < Len(Creations) => Creations[i].ok

\* C14 witness: all six creations issued and succeeded, the waiter running.
C14_Witness ==
    /\ call = "CreateAndStart"
    /\ pc = "waitReady"
    /\ Len(Creations) = 6
    /\ \A i \in 1..6 : Creations[i].ok /\ Creations[i].arg = DependencyOrder[i]

\* the successful operations of the current Clean named `name`
Succeeded(name) == { i \in 1..Len(ops) : ops[i].op = name /\ ops[i].ok }

\* C16 as stated: Clean returns success only after it wiped every node,
\* then re-fetched the daemon set, then patched the node selector to empty,
\* and the waiter then succeeded; and a waiter failure at Re-verify makes
\* Clean return a failure with the node selector restored to empty.
C16_SuccessOnlyAfterRestore ==
    /\ ( CleanReturned /\ retErr = NoErr )
        => /\ Cardinality(Succeeded("RemoveDirPathFromNode")) >= 1
           /\ \E f \in Succeeded("GetDaemonSet") :
                /\ \A w \in Succeeded("RemoveDirPathFromNode") : w < f
                /\ \E r \in Succeeded("UpdateDaemonSetWithNodeSelectors") :
                    /\ f < r
                    /\ ops[r].arg = "{}"
                    /\ \E l \in Succeeded("GetPodsManagedByDaemonSet") : r < l
           /\ nodeSelector = "{}"
           /\ waitErr = NoErr
    /\ ( CleanReturned /\ waitErr # NoErr )
        => /\ retErr # NoErr
           /\ nodeSelector = "{}"

\* C17: when CreateAndStart fails at the generation of the uuid, it has issued
\* no backend operation at all - no create, no remove - when it runs its
\* deferred functions and when it returns; the cluster is as it found it.
C17_UUIDFailureTouchesNothing ==
    ( /\ call = "CreateAndStart"
      /\ retErr # NoErr
      /\ Head(retErr) = "An error occurred creating uuid for logs collector." )
    => /\ pc \in {"deferred", "returned"}
       /\ ops = << >>
       /\ logged = << >>
       /\ cluster = clusterAtCall
       /\ retHandles = {}
       /\ ~retTeardown

\* C17 witness: CreateAndStart has returned the uuid failure.
C17_Witness ==
    /\ CreateAndStartReturned
    /\ retErr = << "An error occurred creating uuid for logs collector.", "backend error" >>
    /\ ops = << >>

\* the kinds whose remove the current call saw fail, in order
FailedRemoves ==
    LET failed == SelectSeq(ops, LAMBDA o : o.op = "Remove" /\ ~o.ok)
    IN  [i \in 1..Len(failed) |-> failed[i].arg]

\* the reverse of the first k kinds of the order of dependency
ReverseOfFirst(k) == [i \in 1..k |-> DependencyOrder[k + 1 - i]]

\* the failure CreateAndStart returns for what went wrong first
OriginatingMessages ==
    { "An error occurred creating " \o DependencyOrder[i] \o " for logs collector" : i \in 1..6 }
    \cup { "An error occurred creating the log collectors HTTP port spec object",
           "An error occurred creating the log collectors TCP port spec object",
           "An error occurred getting the logs collector fluent bit container ports from the port specs",
           "An error occurred waiting for at least one active pod managed by logs collector daemon set" }

\* C18: when CreateAndStart has returned a failure and a remove of its unwind
\* failed, each created kind was the target of exactly one remove (the
\* failed ones too, and the ones after a failed one), every failed remove was
\* logged once and none other, the resources left are those whose remove
\* failed, and the error returned is the creation, port or readiness failure
\* that started the unwind.
C18_RollbackPartialFailure ==
    ( /\ CreateAndStartReturned
      /\ retErr # NoErr
      /\ FailedRemoves # << >> )
    => /\ RemoveTargets = ReverseOfFirst(Cardinality(CreatedKinds))
       /\ logged = FailedRemoves
       /\ cluster = clusterAtCall \cup { FailedRemoves[i] : i \in 1..Len(FailedRemoves) }
       /\ Head(retErr) \in OriginatingMessages
       /\ Cardinality(CreatedKinds) = 6
            => Head(retErr) = "An error occurred waiting for at least one active pod managed by logs collector daemon set"
       /\ ~Creations[Len(Creations)].ok
            => Head(retErr) = "An error occurred creating " \o Creations[Len(Creations)].arg \o " for logs collector"

\* C18 witness: the wait failed, the remove of the cluster role failed in the
\* middle of the unwind, and the three removes after it were still issued.
C18_Witness ==
    /\ CreateAndStartReturned
    /\ Head(retErr) = WaitMsg
    /\ RemoveTargets = ReverseDependencyOrder
    /\ logged = << "ClusterRole" >>
    /\ cluster = {"ClusterRole"}

\* C20: when CreateAndStart has returned a failure, the kinds it created are
\* the first k of the creation order for some k in 0..6, and its removes are
\* those k kinds, each once, last created first; while it unwinds, its
\* removes so far are the first of that sequence.
C20_LifoUnwind ==
    ( /\ call = "CreateAndStart"
      /\ pc \in {"deferred", "returned"}
      /\ retErr # NoErr )
    => LET k == Cardinality(CreatedKinds) IN
        /\ k \in 0..6
        /\ CreatedKinds = { DependencyOrder[i] : i \in 1..k }
        /\ IsPrefix(RemoveTargets, ReverseOfFirst(k))
        /\ pc = "returned" => RemoveTargets = ReverseOfFirst(k)

\* C20 witness: the creation of the binding failed after three creations, and
\* the three were removed last created first.
C20_Witness ==
    /\ CreateAndStartReturned
    /\ Head(retErr) = CreateMsg("ClusterRoleBinding")
    /\ Cardinality(CreatedKinds) = 3
    /\ RemoveTargets = << "ClusterRole", "ServiceAccount", "Namespace" >>


\* C15: with two CreateAndStart calls for two deployments interleaved in any
\* way, every remove a call issues - in its unwind or in its teardown - names
\* a resource that call created; every resource a call created and did not
\* itself remove is in the cluster, whatever the other call did; and a call
\* that has returned success and has not been torn down has its six
\* resources in the cluster.
C15_ConcurrentIndependence ==
    \A c \in Calls :
        /\ calls[c].removed \subseteq calls[c].created
        /\ (calls[c].created \ calls[c].removed) \subseteq sharedCluster
        /\ \A n \in calls[c].created \cup calls[c].removed : n[1] = c
        /\ ( calls[c].pc = "returned" /\ calls[c].retErr = NoErr )
            => { << c, k >> : k \in Kinds } \subseteq sharedCluster

\* C15 witness: call A failed at its wait and is in the middle of its unwind,
\* two resources removed, while call B is in the middle of its creations;
\* what B created is in the cluster.
C15_Witness ==
    /\ calls["A"].pc = "deferred"
    /\ calls["A"].retErr # NoErr
    /\ Cardinality(calls["A"].created) = 6
    /\ Cardinality(calls["A"].removed) = 2
    /\ calls["B"].pc = "create"
    /\ calls["B"].step = 4
    /\ calls["B"].created = { << "B", "Namespace" >>, << "B", "ServiceAccount" >>, << "B", "ClusterRole" >> }
    /\ calls["B"].created \subseteq sharedCluster

\* the numbers of the container ports of the DaemonSet's container
ContainerPortNumbers == { p.ContainerPort : p \in daemonSet.Ports }

\* C19 as stated: whatever the port numbers and port ids, the container has
\* exactly two container ports, the HTTP and the TCP port number, and six
\* volume mounts.
C19_TwoPortsSixMounts ==
    daemonSet.created =>
        /\ Cardinality(daemonSet.Ports) = 2
        /\ ContainerPortNumbers = {portArgs.httpPortNumber, portArgs.tcpPortNumber}
        /\ Len(daemonSet.VolumeMounts) = 6

\* C19: whatever the port numbers, a container created from two different
\* port ids has exactly two container ports, the one named by the HTTP port id
\* with the HTTP port number and the one named by the TCP port id with the TCP
\* port number; a container created from one port id given twice has one
\* container port; either has six volume mounts.
C19_TwoPortsForDistinctIds ==
    daemonSet.created =>
        /\ Len(daemonSet.VolumeMounts) = 6
        /\ portArgs.logsCollectorHttpPortId # portArgs.logsCollectorTcpPortId
            => /\ Cardinality(daemonSet.Ports) = 2
               /\ \E h, t \in daemonSet.Ports :
                    /\ h.Name = portArgs.logsCollectorHttpPortId
                    /\ h.ContainerPort = portArgs.httpPortNumber
                    /\ t.Name = portArgs.logsCollectorTcpPortId
                    /\ t.ContainerPort = portArgs.tcpPortNumber
        /\ portArgs.logsCollectorHttpPortId = portArgs.logsCollectorTcpPortId
            => Cardinality(daemonSet.Ports) = 1

\* C19 witness: a container created from two port ids and two port numbers,
\* all different.
C19_Witness ==
    /\ daemonSet.created
    /\ portArgs.logsCollectorHttpPortId # portArgs.logsCollectorTcpPortId
    /\ portArgs.httpPortNumber # portArgs.tcpPortNumber
    /\ Cardinality(daemonSet.Ports) = 2
    /\ Len(daemonSet.VolumeMounts) = 6


\* the flags of exactly the kinds the current call created are set
ArmedForCreated == shouldRemove = [k \in Kinds |-> k \in CreatedKinds]

\* no flag is set
AllDisarmed == shouldRemove = [k \in Kinds |-> FALSE]

\* C21: in CreateAndStart the flag of every created kind is set up to the
\* waiter's successful return, and on a failing path up to the return; the
\* flags are all cleared in the one step that takes the waiter's success, and
\* never otherwise; a call that returns success has issued no remove, has all
\* flags cleared and leaves the six resources in the cluster.
C21_CommitPoint ==
    call = "CreateAndStart" =>
        /\ ArmedForCreated \/ AllDisarmed
        /\ ( pc \notin {"deferred", "returned"} \/ retErr # NoErr ) => ArmedForCreated
        /\ ( pc \in {"deferred", "returned"} /\ retErr = NoErr )
            => /\ AllDisarmed
               /\ waitErr = NoErr
               /\ CreatedKinds = Kinds
               /\ RemoveTargets = << >>
               /\ Kinds \subseteq cluster

\* C21 witness: CreateAndStart returned success after one listing, nothing
\* removed, no flag set.
C21_Witness ==
    /\ CreateAndStartReturned
    /\ retErr = NoErr
    /\ AllDisarmed
    /\ RemoveTargets = << >>
    /\ Len(SelectSeq(ops, LAMBDA o : o.op = "GetPodsManagedByDaemonSet")) = 1
    /\ cluster = Kinds

\* the listings the waiter in progress has issued: all listings of the call,
\* but for the one Clean issued at Discover
WaitListings ==
    Len(SelectSeq(ops, LAMBDA o : o.op = "GetPodsManagedByDaemonSet"))
    - (IF call = "Clean" THEN 1 ELSE 0)

\* C22: a waiter has issued as many listings as it consumed ticks - one per
\* completed loop iteration, and one more if it returned from a listing - at
\* most maxRetries = 30 in all, none before one retryInterval has passed; and
\* a waiter that consumed 30 ticks without a result returns the
\* exceeded-max-retries failure.
C22_AttemptBound ==
    waitState # "idle" =>
        /\ WaitListings <= 30
        /\ waitState = "running" => WaitListings = attempt
        /\ waitState = "returned" =>
            WaitListings = IF waitErr \in {NewError(TimeoutMsg), NewError(ExceededMsg)}
                           THEN attempt ELSE attempt + 1
        /\ WaitListings >= 1 => elapsed >= WaitListings * retryInterval
        /\ ( waitState = "returned" /\ attempt = 30 )
            => waitErr = << "Exceeded max retries waiting for a pod managed by daemon set to come online" >>

\* C22 witness: the waiter of CreateAndStart returned the exceeded-max-retries
\* failure after 30 listings.
C22_Witness ==
    /\ call = "CreateAndStart"
    /\ waitState = "returned"
    /\ waitErr = NewError(ExceededMsg)
    /\ attempt = 30
    /\ WaitListings = 30


\* the step of Clean the i-th operation of the call belongs to: 1 Discover,
\* 2 Evict, 3 Await termination, 4 Per-node side effect, 5 re-fetch,
\* 6 restore patch, 7 Re-verify
CleanStepOf(i) ==
    LET o == ops[i] IN
    IF o.op = "GetPodsManagedByDaemonSet" THEN (IF i = 1 THEN 1 ELSE 7)
    ELSE IF o.op = "UpdateDaemonSetWithNodeSelectors"
         THEN (IF o.arg = "non-existent-label=true" THEN 2 ELSE 6)
    ELSE IF o.op = "WaitForPodTermination" THEN 3
    ELSE IF o.op = "RemoveDirPathFromNode" THEN 4
    ELSE IF o.op = "GetDaemonSet" THEN 5
    ELSE 0

\* how many operations of the current call belong to step s
CleanOpsOfStep(s) == Cardinality({ i \in 1..Len(ops) : CleanStepOf(i) = s })

\* the operations of Clean come in the order of its steps, and the steps of
\* one operation have one operation at most
CleanOpsInStepOrder ==
    /\ \A i \in 1..Len(ops) : CleanStepOf(i) # 0
    /\ \A i \in 1..(Len(ops) - 1) : CleanStepOf(i) <= CleanStepOf(i + 1)
    /\ \A s \in {1, 2, 5, 6} : CleanOpsOfStep(s) <= 1

\* C23 as stated: the operations of Clean come in the order of its steps,
\* and every Clean call issues exactly one eviction patch and at most one
\* restore patch.
C23_LinearWithOneEviction ==
    call = "Clean" =>
        /\ CleanOpsInStepOrder
        /\ pc = "returned" => CleanOpsOfStep(2) = 1

\* C23: the operations of Clean come in the order of its steps: the listing
\* of Discover, the eviction patch, the termination waits, the wipes, the
\* re-fetch, the restore patch, the readiness listings, none of an earlier
\* step after one of a later step; at most one listing of Discover, one
\* re-fetch and one restore patch; exactly one eviction patch in a call that
\* found pods at Discover, and none in a call that returned from Discover.
C23_LinearStateMachine ==
    call = "Clean" =>
        /\ CleanOpsInStepOrder
        /\ pc = "returned" =>
            CleanOpsOfStep(2) = IF pods = << >> THEN 0 ELSE 1
        /\ CleanOpsOfStep(3) <= Len(pods)
        /\ CleanOpsOfStep(4) <= Len(nodeNames)

\* C23 witness: a Clean over two pods has returned success with all seven
\* steps in its operations.
C23_Witness ==
    /\ CleanReturned
    /\ retErr = NoErr
    /\ Len(pods) = 2
    /\ \A s \in 1..7 : CleanOpsOfStep(s) >= 1
    /\ CleanOpsOfStep(3) = 2
    /\ CleanOpsOfStep(4) = 2

\* the wipes of node n the current call issued
WipesOf(n) ==
    Cardinality({ i \in 1..Len(ops) : ops[i].op = "RemoveDirPathFromNode" /\ ops[i].arg = n })

\* Clean has reached its Restore step
ReachedRestore ==
    /\ call = "Clean"
    /\ \/ pc \in {"Clean.GetDaemonSet", "Clean.restore", "Clean.waitReady"}
       \/ pc = "returned" /\ \E i \in 1..Len(ops) : ops[i].op = "GetDaemonSet"

\* C24 as stated: a Clean that has reached the Restore step has wiped each
\* node that hosted a pod at Discover exactly once, and no other node.
C24_WipeOncePerNode ==
    ReachedRestore =>
        \A n \in Nodes :
            WipesOf(n) = IF \E p \in 1..Len(pods) : pods[p] = n THEN 1 ELSE 0


\* the failures of the steps between the ConfigMap and the DaemonSet
PortFailureMessages ==
    { "An error occurred creating the log collectors HTTP port spec object",
      "An error occurred creating the log collectors TCP port spec object",
      "An error occurred getting the logs collector fluent bit container ports from the port specs" }

\* C25: when a port spec or the translation to container ports fails,
\* CreateAndStart is returning: it has issued no creation of the DaemonSet,
\* it removes the five kinds it created in the order ConfigMap,
\* ClusterRoleBinding, ClusterRole, ServiceAccount, Namespace, and it returns
\* the failure with no handle and no teardown capability.
C25_PortFailureUnwinds ==
    ( /\ call = "CreateAndStart"
      /\ retErr # NoErr
      /\ Head(retErr) \in PortFailureMessages )
    => /\ pc \in {"deferred", "returned"}
       /\ \A i \in 1..Len(ops) : ~(ops[i].op = "Create" /\ ops[i].arg = "DaemonSet")
       /\ CreatedKinds = {"Namespace", "ServiceAccount", "ClusterRole", "ClusterRoleBinding", "ConfigMap"}
       /\ IsPrefix(RemoveTargets,
                   << "ConfigMap", "ClusterRoleBinding", "ClusterRole", "ServiceAccount", "Namespace" >>)
       /\ pc = "returned" =>
            RemoveTargets = << "ConfigMap", "ClusterRoleBinding", "ClusterRole", "ServiceAccount", "Namespace" >>
       /\ retHandles = {}
       /\ ~retTeardown

\* C25 witness: the translation to container ports failed, and CreateAndStart
\* returned after removing the five kinds, the cluster left empty.
C25_Witness ==
    /\ CreateAndStartReturned
    /\ Head(retErr) = "An error occurred getting the logs collector fluent bit container ports from the port specs"
    /\ RemoveTargets = << "ConfigMap", "ClusterRoleBinding", "ClusterRole", "ServiceAccount", "Namespace" >>
    /\ cluster = {}

\* C26: CreateAndStart, once its results are set, has one of two outcomes:
\* no error with all six handles and the teardown capability, or an error
\* with no handle and no teardown capability; a call that issued a remove has
\* the second.
C26_OutcomeShape ==
    ( call = "CreateAndStart" /\ pc \in {"deferred", "returned"} )
    => /\ \/ retErr = NoErr /\ retHandles = Kinds /\ retTeardown
          \/ retErr # NoErr /\ retHandles = {} /\ ~retTeardown
       /\ RemoveTargets # << >> => retErr # NoErr /\ retHandles = {} /\ ~retTeardown

\* C26 witness: the creation of the DaemonSet failed, five kinds were rolled
\* back, and the caller got the error and nothing else.
C26_Witness ==
    /\ CreateAndStartReturned
    /\ Head(retErr) = CreateMsg("DaemonSet")
    /\ Len(RemoveTargets) = 5
    /\ retHandles = {}
    /\ ~retTeardown

=============================================================================
